---- MODULE Spec2Model ----
(***************************************************************************)
(* Selective Repeat sender (A) and receiver (B) of src/sr.c, driven by an  *)
(* application that submits messages, a retransmission timer and two lossy *)
(* corrupting FIFO channels.                                               *)
(***************************************************************************)
EXTENDS Integers, Sequences, FiniteSets, TLC

(* ------------------------------------------------------------------------ *)
(* Program constants (src/sr.c:26-29, 43)                                   *)
(* ------------------------------------------------------------------------ *)
WINDOWSIZE == 6
SEQSPACE == 7
NOTINUSE == -1
PAYLOADLEN == 20

(* ------------------------------------------------------------------------ *)
(* Bounds of the explored environment                                       *)
(* ------------------------------------------------------------------------ *)
\* calls of A_output made by the application
MaxCalls == 7
\* timer expiries that resend a packet
MaxResent == 1
\* packets the channels corrupt
MaxCorrupt == 2
\* packets in flight per direction
MaxChan == 1
\* ACK packets a driver hands to A_input (specification SenderSpec)
MaxPeerAcks == 2

(* ------------------------------------------------------------------------ *)
(* Packets and payloads                                                     *)
(* ------------------------------------------------------------------------ *)
\* A char[PAYLOADLEN] block is kept as the byte that fills it and the one
\* position that may hold another byte: every block of the system is a filled
\* block (a message, an ACK's '0's, zeroed storage) with at most one byte
\* changed by the channel.  Byte(p, i) is the i-th char, i in 1..PAYLOADLEN.
Block(fill, at, b) ==
  IF b = fill
  THEN [fill |-> fill, at |-> 1, b |-> fill]
  ELSE [fill |-> fill, at |-> at, b |-> b]

\* a payload of PAYLOADLEN equal bytes
Fill(c) == Block(c, 1, c)

Byte(payload, i) == IF i = payload.at THEN payload.b ELSE payload.fill

\* a filled block with its i-th byte overwritten
SetByte(payload, i, v) == Block(payload.fill, i, v)

\* the message of the k-th call of A_output (char data[20]): the application
\* works through an alphabet, so that distinct messages carry distinct bytes
Message(k) == Fill(97 + (k % 26))

\* a struct pkt of static storage: every field zero
ZeroPkt == [seqnum |-> 0, acknum |-> 0, checksum |-> 0, payload |-> Fill(0)]

RECURSIVE SumBytes(_, _)
SumBytes(payload, i) ==
  IF i = 0 THEN 0 ELSE Byte(payload, i) + SumBytes(payload, i - 1)

\* a faulty checksum, against which C19 is tried: acknum is left out
ComputeChecksum_noack(packet) ==
  packet.seqnum + SumBytes(packet.payload, PAYLOADLEN)

ComputeChecksum(packet) ==
  packet.seqnum + packet.acknum + SumBytes(packet.payload, PAYLOADLEN)

\* returns -1 when the checksum field matches, 0 when it differs
IsCorrupted(packet) ==
  IF packet.checksum = ComputeChecksum(packet) THEN -1 ELSE 0

\* C's logical negation of an int
Not(x) == x = 0

\* a faulty window test, against which C24 is tried: the branch for a window
\* that straddles the modulus is missing
InWindow_nowrap(x, first) ==
  LET seqfirst == first
      seqlast == (first + WINDOWSIZE - 1) % SEQSPACE
  IN  (seqfirst <= seqlast) /\ (x >= seqfirst /\ x <= seqlast)

\* the two-branch window test of A_output, A_input and B_input
InWindow(x, first) ==
  LET seqfirst == first
      seqlast == (first + WINDOWSIZE - 1) % SEQSPACE
  IN  \/ (seqfirst <= seqlast) /\ (x >= seqfirst /\ x <= seqlast)
      \/ (seqfirst > seqlast) /\ (x >= seqfirst \/ x <= seqlast)

\* strcmp(a, b) != 0 on two char[20] fields: the comparison stops at the
\* first differing byte or at a NUL in both; twenty equal non-NUL bytes make
\* it read past both arrays, where the outcome is not determined
RECURSIVE StrcmpDiffers(_, _, _)
StrcmpDiffers(a, b, i) ==
  IF i > PAYLOADLEN THEN {TRUE, FALSE}
  ELSE IF Byte(a, i) # Byte(b, i) THEN {TRUE}
  ELSE IF Byte(a, i) = 0 THEN {FALSE}
  ELSE StrcmpDiffers(a, b, i + 1)

\* strcmp(p, "") != 0
NotEmptyString(payload) == Byte(payload, 1) # 0

Slots == 0..(WINDOWSIZE - 1)

(* ------------------------------------------------------------------------ *)
(* State                                                                    *)
(* ------------------------------------------------------------------------ *)
VARIABLES
  buffer,               \* A: struct pkt buffer[WINDOWSIZE]
  windowfirst,          \* the one file-scope object declared at lines 61 and 252
  windowlast,           \* A
  windowcount,          \* A
  A_nextseqnum,         \* A
  expectedseqnum,       \* B
  B_nextseqnum,         \* B
  buffer_b,             \* B: struct pkt buffer_b[WINDOWSIZE]
  receivelast,          \* B
  window_full,          \* counters kept for the harness
  total_ACKs_received,
  new_ACKs,
  packets_resent,
  packets_received,
  timer,                \* "idle" or "running"
  chanAB,               \* data packets in flight from A to B
  chanBA,               \* ACK packets in flight from B to A
  ncorrupt,             \* packets corrupted so far
  npeer,                \* ACK packets handed in by the driver so far
  slid,                 \* history: slots A_input has slid out so far
  lost,                 \* history: whether layer 3 has lost a packet
  ackedsent,            \* history: sent packets A_input has marked so far
  sent,                 \* history: messages accepted by A_output, in order
  delivered,            \* history: payloads passed to tolayer5, in order
  oob,                  \* history: an array index left [0, WINDOWSIZE)
  op                    \* history: the last handler call and what it emitted

senderVars == <<buffer, windowlast, windowcount, A_nextseqnum>>
receiverVars == <<expectedseqnum, B_nextseqnum, buffer_b, receivelast>>
counterVars == <<window_full, total_ACKs_received, new_ACKs, packets_resent,
                 packets_received>>
envVars == <<timer, chanAB, chanBA, ncorrupt, npeer>>
histVars == <<sent, delivered, slid, lost, ackedsent, oob, op>>
vars == <<buffer, windowfirst, windowlast, windowcount, A_nextseqnum,
          expectedseqnum, B_nextseqnum, buffer_b, receivelast,
          window_full, total_ACKs_received, new_ACKs, packets_resent,
          packets_received, timer, chanAB, chanBA, ncorrupt, npeer,
          sent, delivered, slid, lost, ackedsent, oob, op>>

\* the record kept of a handler call: its argument, the packets it handed to
\* layer 3, the payloads it handed to layer 5 and its timer calls
Call(name, arg, tx, up, tcalls) ==
  [name |-> name, arg |-> arg, tx |-> tx, up |-> up, tcalls |-> tcalls]

\* A_init and B_init on zero-initialised static storage
Init ==
  /\ buffer = [i \in Slots |-> ZeroPkt]
  /\ windowfirst = 0
  /\ windowlast = -1
  /\ windowcount = 0
  /\ A_nextseqnum = 0
  /\ expectedseqnum = 0
  /\ B_nextseqnum = 1
  /\ buffer_b = [i \in Slots |-> ZeroPkt]
  /\ receivelast = 0
  /\ window_full = 0
  /\ total_ACKs_received = 0
  /\ new_ACKs = 0
  /\ packets_resent = 0
  /\ packets_received = 0
  /\ timer = "idle"
  /\ chanAB = <<>>
  /\ chanBA = <<>>
  /\ ncorrupt = 0
  /\ npeer = 0
  /\ slid = 0
  /\ lost = FALSE
  /\ ackedsent = 0
  /\ sent = <<>>
  /\ delivered = <<>>
  /\ oob = FALSE
  /\ op = Call("init", ZeroPkt, <<>>, <<>>, <<>>)

(* ------------------------------------------------------------------------ *)
(* The harness: layer 3, the timer                                          *)
(* ------------------------------------------------------------------------ *)
\* tolayer3: the channels the call may leave behind; the packet joins the
\* channel or is lost, and a channel holding MaxChan packets loses it
ToLayer3(chan, packet) ==
  IF Len(chan) < MaxChan THEN {Append(chan, packet), chan} ELSE {chan}

\* a timer call as recorded in op.tcalls: the call and the timer's state before
TimerCall(what, before) == [call |-> what, before |-> before]


\* starttimer / stoptimer on the single timer; op.tcalls keeps the calls
StartTimer(calls, t) == Append(calls, TimerCall("start", t))
StopTimer(calls, t) == Append(calls, TimerCall("stop", t))

(* ------------------------------------------------------------------------ *)
(* Sender A                                                                 *)
(* ------------------------------------------------------------------------ *)
\* the slot A_output stores a new packet in
BufIndex(nextseqnum, first) ==
  IF nextseqnum >= first
  THEN nextseqnum - first
  ELSE WINDOWSIZE - first + nextseqnum

\* the slot A_input looks an acknum up in
AckIndex(acknum, first) ==
  IF acknum >= first
  THEN acknum - first
  ELSE WINDOWSIZE - (first - acknum)

\* a faulty packet builder, against which C18 is tried: the packet carries
\* the sequence number after the one it was given
DataPkt_shifted(seq, message) ==
  LET body == [seqnum |-> (seq + 1) % SEQSPACE, acknum |-> NOTINUSE,
               checksum |-> 0, payload |-> message]
  IN  [body EXCEPT !.checksum = ComputeChecksum(body)]

\* sendpkt as A_output builds it
DataPkt(seq, message) ==
  LET body == [seqnum |-> seq, acknum |-> NOTINUSE, checksum |-> 0,
               payload |-> message]
  IN  [body EXCEPT !.checksum = ComputeChecksum(body)]

\* A_output, the branch taken when A_nextseqnum is inside the window
A_output_send(message) ==
  LET sendpkt == DataPkt(A_nextseqnum, message)
      buf_index == BufIndex(A_nextseqnum, windowfirst)
      starts == (windowcount + 1 = 1)
  IN  /\ buffer' = IF buf_index \in Slots
                   THEN [buffer EXCEPT ![buf_index] = sendpkt]
                   ELSE buffer
      /\ oob' = (oob \/ buf_index \notin Slots)
      /\ windowcount' = windowcount + 1
      /\ chanAB' \in ToLayer3(chanAB, sendpkt)
      /\ lost' = (lost \/ chanAB' = chanAB)
      /\ timer' = IF starts THEN "running" ELSE timer
      /\ A_nextseqnum' = (A_nextseqnum + 1) % SEQSPACE
      /\ sent' = Append(sent, message)
      /\ op' = Call("A_output", [ZeroPkt EXCEPT !.payload = message],
                    <<sendpkt>>, <<>>,
                    IF starts THEN StartTimer(<<>>, timer) ELSE <<>>)
      /\ UNCHANGED <<windowfirst, windowlast, window_full>>

\* a faulty full-window branch, against which C7 is tried: the rejected call
\* uses up a sequence number
A_output_full_advancing(message) ==
  /\ window_full' = window_full + 1
  /\ A_nextseqnum' = (A_nextseqnum + 1) % SEQSPACE
  /\ op' = Call("A_output", [ZeroPkt EXCEPT !.payload = message],
                <<>>, <<>>, <<>>)
  /\ UNCHANGED <<buffer, windowfirst, windowlast, windowcount, chanAB, timer,
                 sent, lost, oob>>

\* A_output, the branch taken when the window is full
A_output_full(message) ==
  /\ window_full' = window_full + 1
  /\ op' = Call("A_output", [ZeroPkt EXCEPT !.payload = message],
                <<>>, <<>>, <<>>)
  /\ UNCHANGED <<buffer, windowfirst, windowlast, windowcount, A_nextseqnum,
                 chanAB, timer, sent, lost, oob>>

A_output(message) ==
  /\ Len(sent) + window_full < MaxCalls
  /\ IF InWindow(A_nextseqnum, windowfirst)
     THEN A_output_send(message)
     ELSE A_output_full(message)
  /\ UNCHANGED <<receiverVars, total_ACKs_received, new_ACKs, packets_resent,
                 packets_received, chanBA, ncorrupt, npeer, delivered, slid,
                 ackedsent>>

\* the number of leading slots whose acknum is not NOTINUSE
RECURSIVE SlideFrom(_, _)
SlideFrom(buf, i) ==
  IF i < WINDOWSIZE /\ buf[i].acknum # NOTINUSE
  THEN 1 + SlideFrom(buf, i + 1)
  ELSE 0

SlideCount(buf) == SlideFrom(buf, 0)

\* the buffer after the two loops that shift it left and clear its tail
ShiftBuffer(buf, slide) ==
  [i \in Slots |->
     IF i < WINDOWSIZE - slide
     THEN buf[i + slide]
     ELSE [buf[i] EXCEPT !.acknum = NOTINUSE, !.payload = Fill(0)]]

\* whether A_input finds buffer[index].acknum == NOTINUSE; an index outside
\* the array reads memory that is not the buffer
UnackedAt(buf, index) ==
  IF index \in Slots THEN {buf[index].acknum = NOTINUSE} ELSE {TRUE, FALSE}

\* A_input, the branch taken for an acknum inside the window
A_input_inwindow(packet) ==
  LET index == AckIndex(packet.acknum, windowfirst)
  IN  \E fresh \in UnackedAt(buffer, index) :
        LET marked == IF fresh /\ index \in Slots
                      THEN [buffer EXCEPT ![index].acknum = packet.acknum]
                      ELSE buffer
            count == IF fresh THEN windowcount - 1 ELSE windowcount
            slide == SlideCount(marked)
            stopped == StopTimer(<<>>, timer)
        IN  /\ oob' = (oob \/ index \notin Slots)
            /\ windowcount' = count
            /\ new_ACKs' = IF fresh THEN new_ACKs + 1 ELSE new_ACKs
            /\ slid' = slid + slide
            /\ ackedsent' = IF /\ fresh
                               /\ index \in Slots
                               /\ NotEmptyString(buffer[index].payload)
                            THEN ackedsent + 1
                            ELSE ackedsent
            /\ IF slide > 0
               THEN /\ windowfirst' = (windowfirst + slide) % SEQSPACE
                    /\ buffer' = ShiftBuffer(marked, slide)
                    /\ timer' = IF count > 0 THEN "running" ELSE "idle"
                    /\ op' = Call("A_input", packet, <<>>, <<>>,
                                  IF count > 0
                                  THEN StartTimer(stopped, "idle")
                                  ELSE stopped)
               ELSE /\ windowfirst' = windowfirst
                    /\ buffer' = marked
                    /\ timer' = timer
                    /\ op' = Call("A_input", packet, <<>>, <<>>, <<>>)

\* a faulty A_input, against which C30 is tried: the window test is missing
A_input_nowindow(packet) ==
  /\ IF Not(IsCorrupted(packet))
     THEN /\ total_ACKs_received' = total_ACKs_received + 1
          /\ A_input_inwindow(packet)
     ELSE /\ op' = Call("A_input", packet, <<>>, <<>>, <<>>)
          /\ UNCHANGED <<buffer, windowfirst, windowcount, new_ACKs, timer,
                         oob, slid, ackedsent, total_ACKs_received>>
  /\ UNCHANGED <<windowlast, A_nextseqnum, receiverVars, window_full,
                 packets_resent, packets_received, chanAB, sent,
                 delivered, lost>>

A_input(packet) ==
  /\ IF Not(IsCorrupted(packet))
     THEN /\ total_ACKs_received' = total_ACKs_received + 1
          /\ IF InWindow(packet.acknum, windowfirst)
             THEN A_input_inwindow(packet)
             ELSE /\ op' = Call("A_input", packet, <<>>, <<>>, <<>>)
                  /\ UNCHANGED <<buffer, windowfirst, windowcount, new_ACKs,
                                 timer, oob, slid, ackedsent>>
     ELSE /\ op' = Call("A_input", packet, <<>>, <<>>, <<>>)
          /\ UNCHANGED <<buffer, windowfirst, windowcount, new_ACKs, timer,
                         oob, slid, ackedsent, total_ACKs_received>>
  /\ UNCHANGED <<windowlast, A_nextseqnum, receiverVars, window_full,
                 packets_resent, packets_received, chanAB, sent,
                 delivered, lost>>

\* the timer goes off (it is no longer running) and A_timerinterrupt runs
A_timerinterrupt ==
  /\ timer = "running"
  /\ windowcount > 0 => packets_resent < MaxResent
  /\ IF windowcount > 0
     THEN /\ chanAB' \in ToLayer3(chanAB, buffer[0])
          /\ lost' = (lost \/ chanAB' = chanAB)
          /\ packets_resent' = packets_resent + 1
          /\ timer' = "running"
          /\ op' = Call("A_timerinterrupt", ZeroPkt, <<buffer[0]>>, <<>>,
                        StartTimer(<<>>, "idle"))
     ELSE /\ timer' = "idle"
          /\ op' = Call("A_timerinterrupt", ZeroPkt, <<>>, <<>>, <<>>)
          /\ UNCHANGED <<chanAB, packets_resent, lost>>
  /\ UNCHANGED <<buffer, windowfirst, windowlast, windowcount, A_nextseqnum,
                 receiverVars, window_full, total_ACKs_received, new_ACKs,
                 packets_received, chanBA, ncorrupt, npeer, sent, delivered,
                 slid, ackedsent, oob>>

(* ------------------------------------------------------------------------ *)
(* Receiver B                                                               *)
(* ------------------------------------------------------------------------ *)
\* sendpkt as B_input builds it: the payload is twenty '0' characters
AckPkt(ack) ==
  LET body == [seqnum |-> NOTINUSE, acknum |-> ack, checksum |-> 0,
               payload |-> Fill(48)]
  IN  [body EXCEPT !.checksum = ComputeChecksum(body)]

\* the slot B_input stores a packet in
RcvIndex(seqnum, first) ==
  IF seqnum >= first
  THEN seqnum - first
  ELSE WINDOWSIZE - first + seqnum

\* the number of leading slots of buffer_b that count as received
RECURSIVE PckFrom(_, _)
PckFrom(buf, i) ==
  IF i < WINDOWSIZE /\ buf[i].acknum >= 0 /\ NotEmptyString(buf[i].payload)
  THEN 1 + PckFrom(buf, i + 1)
  ELSE 0

PckCount(buf) == PckFrom(buf, 0)

\* the slots the update loop reads outside buffer_b
ShiftBOutside(pckcount, last) ==
  {i \in Slots : (i + pckcount) <= (last + 1) /\ (i + pckcount) \notin Slots}

\* buffer_b after the update loop; `outside` stands for what a read past the
\* array returns
ShiftBufferB(buf, pckcount, last, outside) ==
  [i \in Slots |->
     IF (i + pckcount) <= (last + 1)
     THEN IF (i + pckcount) \in Slots THEN buf[i + pckcount] ELSE outside
     ELSE buf[i]]

\* what memory next to the arrays may hold
OutsidePkts == {ZeroPkt, [ZeroPkt EXCEPT !.acknum = NOTINUSE]}

\* the outcomes of strcmp(buffer_b[index].payload, packet.payload) != 0; an
\* index outside the array compares memory that is not the buffer
DiffersAt(buf, index, payload) ==
  IF index \in Slots
  THEN StrcmpDiffers(buf[index].payload, payload, 1)
  ELSE {TRUE, FALSE}

\* B_input, the part after the ACK was sent: window test, buffering, delivery
B_input_window(packet) ==
  LET seqfirst == windowfirst
      index == RcvIndex(packet.seqnum, seqfirst)
      last == IF receivelast > index THEN receivelast ELSE index
  IN  IF InWindow(packet.seqnum, seqfirst)
      THEN /\ receivelast' = last
           /\ \E differs \in DiffersAt(buffer_b, index, packet.payload) :
                IF differs
                THEN LET stored == [packet EXCEPT !.acknum = packet.seqnum]
                         buffered == IF index \in Slots
                                     THEN [buffer_b EXCEPT ![index] = stored]
                                     ELSE buffer_b
                         pckcount == PckCount(buffered)
                     IN  /\ IF packet.seqnum = seqfirst
                            THEN /\ windowfirst' =
                                      (windowfirst + pckcount) % SEQSPACE
                                 /\ \E outside \in OutsidePkts :
                                      buffer_b' = ShiftBufferB(buffered,
                                                    pckcount, last, outside)
                                 /\ oob' = (oob \/ index \notin Slots
                                     \/ ShiftBOutside(pckcount, last) # {})
                            ELSE /\ windowfirst' = windowfirst
                                 /\ buffer_b' = buffered
                                 /\ oob' = (oob \/ index \notin Slots)
                         /\ delivered' = delivered \o
                                           <<packet.payload, packet.payload>>
                         /\ op' = Call("B_input", packet,
                                       <<AckPkt(expectedseqnum)>>,
                                       <<packet.payload, packet.payload>>,
                                       <<>>)
                ELSE /\ delivered' = Append(delivered, packet.payload)
                     /\ op' = Call("B_input", packet,
                                   <<AckPkt(expectedseqnum)>>,
                                   <<packet.payload>>, <<>>)
                     /\ oob' = (oob \/ index \notin Slots)
                     /\ UNCHANGED <<windowfirst, buffer_b>>
      ELSE /\ delivered' = Append(delivered, packet.payload)
           /\ op' = Call("B_input", packet, <<AckPkt(expectedseqnum)>>,
                         <<packet.payload>>, <<>>)
           /\ UNCHANGED <<windowfirst, buffer_b, receivelast, oob>>

B_input(packet) ==
  /\ IF Not(IsCorrupted(packet)) /\ (packet.seqnum = expectedseqnum)
     THEN /\ packets_received' = packets_received + 1
          /\ chanBA' \in ToLayer3(chanBA, AckPkt(expectedseqnum))
          /\ lost' = (lost \/ chanBA' = chanBA)
          /\ B_input_window(packet)
     ELSE /\ op' = Call("B_input", packet, <<>>, <<>>, <<>>)
          /\ UNCHANGED <<packets_received, chanBA, windowfirst, buffer_b,
                         receivelast, delivered, lost, oob>>
  /\ UNCHANGED <<senderVars, expectedseqnum, B_nextseqnum, window_full,
                 total_ACKs_received, new_ACKs, packets_resent, timer, sent,
                 slid, ackedsent>>

(* ------------------------------------------------------------------------ *)
(* The channels                                                             *)
(* ------------------------------------------------------------------------ *)
\* header values and the payload byte a corrupted packet may carry
SeqNoise == {999999}
AckNoise == {1, 999999}
NoiseBytes == {90}

\* the packets a corruption of one field (never the checksum) makes of p
Corruptions(p) ==
  {[p EXCEPT !.seqnum = v] : v \in SeqNoise \ {p.seqnum}}
    \cup {[p EXCEPT !.acknum = v] : v \in AckNoise \ {p.acknum}}
    \cup {[p EXCEPT !.payload = SetByte(p.payload, 1, v)] :
            v \in NoiseBytes \ {Byte(p.payload, 1)}}

\* what may arrive when the head of a channel is delivered
Arrivals(chan) ==
  IF chan = <<>> THEN {}
  ELSE {Head(chan)} \cup
       (IF ncorrupt < MaxCorrupt THEN Corruptions(Head(chan)) ELSE {})

(* ------------------------------------------------------------------------ *)
(* Specification                                                            *)
(* ------------------------------------------------------------------------ *)
\* the application submits its next message
Submit ==
  \E message \in {Message(Len(sent) + window_full)} : A_output(message)

\* the channel from B delivers its head, as sent or corrupted, to A
AckArrives ==
  \E packet \in Arrivals(chanBA) :
    /\ chanBA' = Tail(chanBA)
    /\ ncorrupt' = IF packet = Head(chanBA) THEN ncorrupt ELSE ncorrupt + 1
    /\ npeer' = npeer
    /\ A_input(packet)

\* the channel from A delivers its head, as sent or corrupted, to B
DataArrives ==
  \E packet \in Arrivals(chanAB) :
    /\ chanAB' = Tail(chanAB)
    /\ ncorrupt' = IF packet = Head(chanAB) THEN ncorrupt ELSE ncorrupt + 1
    /\ npeer' = npeer
    /\ B_input(packet)

Next ==
  \/ Submit
  \/ AckArrives
  \/ A_timerinterrupt
  \/ DataArrives

\* the whole system: application, sender, channels, receiver
Spec == Init /\ [][Next]_vars

(* ------------------------------------------------------------------------ *)
(* The sender on its own, its ACKs handed to A_input by a driver            *)
(* ------------------------------------------------------------------------ *)
\* the ACK packets the peer hands in: for every sequence number the ACK as a
\* receiver builds it, that ACK with a payload byte changed on the way, and
\* an ACK whose acknum field was overwritten on the way
PeerAcks ==
  {AckPkt(a) : a \in 0..(SEQSPACE - 1)}
    \cup {[AckPkt(a) EXCEPT !.payload = SetByte(AckPkt(a).payload, 1, v)] :
            a \in 0..(SEQSPACE - 1), v \in NoiseBytes}
    \cup {[AckPkt(0) EXCEPT !.acknum = v] : v \in AckNoise \ {0}}

PeerAck ==
  \E packet \in PeerAcks :
    /\ npeer < MaxPeerAcks
    /\ npeer' = npeer + 1
    /\ UNCHANGED <<chanBA, ncorrupt>>
    /\ A_input(packet)

SenderNext ==
  \/ Submit
  \/ PeerAck
  \/ A_timerinterrupt

SenderSpec == Init /\ [][SenderNext]_vars

(* ------------------------------------------------------------------------ *)
(* The whole system under an event loop that serves every pending event     *)
(* ------------------------------------------------------------------------ *)
\* a submission, an arrival or a timer expiry that stays pending is served
FairSpec ==
  /\ Spec
  /\ WF_vars(Submit)
  /\ WF_vars(AckArrives)
  /\ WF_vars(A_timerinterrupt)
  /\ WF_vars(DataArrives)

(* ------------------------------------------------------------------------ *)
(* Properties                                                               *)
(* ------------------------------------------------------------------------ *)
\* the checksum field agrees with the checksum of the other fields
Valid(packet) == packet.checksum = ComputeChecksum(packet)

\* s is an initial segment of t
IsPrefix(s, t) ==
  /\ Len(s) <= Len(t)
  /\ \A i \in 1..Len(s) : s[i] = t[i]

NoDuplicates(s) == \A i, j \in 1..Len(s) : s[i] = s[j] => i = j

\* C1: exactly-once, in-order delivery.  In every reachable state the list of
\* payloads passed to tolayer5 is a duplicate-free prefix of the list of
\* messages accepted by A_output, in submission order.
C1_ExactlyOnceInOrder ==
  /\ IsPrefix(delivered, sent)
  /\ NoDuplicates(delivered)

\* every accepted message has been passed to tolayer5
AllDelivered ==
  \A k \in 1..Len(sent) : \E i \in 1..Len(delivered) : delivered[i] = sent[k]

\* layer 3 has neither lost nor corrupted a packet
CleanChannel == ~lost /\ ncorrupt = 0

C3_AckPerValidPacket ==
  (op.name = "B_input" /\ Valid(op.arg)) =>
    (Len(op.tx) = 1 /\ op.tx[1].acknum = op.arg.seqnum)

\* on a clean channel nothing is ever delivered or retired, however often the
\* timer resends
CleanChannelStalls ==
  CleanChannel => (delivered = <<>> /\ slid = 0 /\ windowcount = Len(sent))

\* C4: the window base advances only past sequence numbers that were sent by
\* an accepted A_output and acknowledged by a valid ACK: A_input has never
\* slid out more slots than messages were accepted, and an A_input call that
\* slid the window (it stopped the timer) was handed a valid ACK.
C4_BaseAdvancesPastAckedOnly ==
  /\ slid <= Len(sent)
  /\ (op.name = "A_input" /\ op.tcalls # <<>>) => Valid(op.arg)

\* slot j holds the packet with sequence number base + j, unacknowledged
OutstandingAt(j) ==
  /\ buffer[j].acknum = NOTINUSE
  /\ buffer[j].seqnum = (windowfirst + j) % SEQSPACE
  /\ NotEmptyString(buffer[j].payload)

\* the number of leading slots that hold an acknowledged packet, once slot 0
\* is acknowledged too
RECURSIVE AckedPrefixFrom(_)
AckedPrefixFrom(j) ==
  IF /\ j < WINDOWSIZE
     /\ buffer[j].acknum # NOTINUSE
     /\ NotEmptyString(buffer[j].payload)
  THEN 1 + AckedPrefixFrom(j + 1)
  ELSE 0

\* C5: selective retirement.  With the base packet outstanding, a valid ACK
\* for base+1 or base+2 leaves the base where it is, marks that slot and
\* lowers the outstanding count by one; a valid ACK for the base advances the
\* base, in that one call, by the length of the acknowledged prefix.
C5_SelectiveRetirement ==
  [][(npeer' # npeer /\ Valid(op'.arg) /\ OutstandingAt(0)) =>
       /\ \A j \in 1..2 :
            (op'.arg.acknum = (windowfirst + j) % SEQSPACE /\ OutstandingAt(j))
              => /\ windowfirst' = windowfirst
                 /\ buffer'[j].acknum # NOTINUSE
                 /\ windowcount' = windowcount - 1
       /\ op'.arg.acknum = windowfirst
            => windowfirst' =
                 (windowfirst + 1 + AckedPrefixFrom(1)) % SEQSPACE]_vars

\* C6: at most one window.  The messages accepted by A_output and not yet
\* slid out of the window by A_input, and the outstanding count, never exceed
\* WINDOWSIZE.
C6_AtMostOneWindow ==
  /\ Len(sent) - slid <= WINDOWSIZE
  /\ windowcount <= WINDOWSIZE

\* C7: window-full rejection.  A call of A_output made while A_nextseqnum is
\* outside the window sends no packet, makes no timer call and leaves the
\* base, A_nextseqnum, the outstanding count, every slot and all other state
\* unchanged; only window_full grows, by one.
C7_WindowFullRejection ==
  [][(/\ Len(sent') + window_full' # Len(sent) + window_full
      /\ (A_nextseqnum - windowfirst) % SEQSPACE >= WINDOWSIZE) =>
       /\ window_full' = window_full + 1
       /\ op'.name = "A_output"
       /\ op'.tx = <<>>
       /\ op'.tcalls = <<>>
       /\ UNCHANGED <<buffer, windowfirst, windowlast, windowcount,
                      A_nextseqnum, timer, chanAB, chanBA, sent>>
       /\ UNCHANGED <<receiverVars, total_ACKs_received, new_ACKs,
                      packets_resent, packets_received, delivered>>]_vars

\* a full window of unacknowledged packets has just rejected a message
C7_Rejected ==
  /\ op.name = "A_output"
  /\ op.tx = <<>>
  /\ window_full > 0
  /\ windowcount = WINDOWSIZE
  /\ Len(sent) = WINDOWSIZE
  /\ (A_nextseqnum - windowfirst) % SEQSPACE >= WINDOWSIZE

\* C8: a timer expiry with packets outstanding hands exactly one packet to
\* layer 3, the packet whose seqnum is the current window base, and
\* packets_resent grows by exactly one.
C8_TimeoutResendsBase ==
  [][(op'.name = "A_timerinterrupt" /\ windowcount > 0) =>
       /\ Len(op'.tx) = 1
       /\ op'.tx[1].seqnum = windowfirst
       /\ packets_resent' = packets_resent + 1]_vars

\* C9: B_input discards a data packet whose checksum does not match (no ACK,
\* no delivery, cursor, receive base and receive buffer unchanged), and a
\* packet whose checksum matches is the one that is processed.
C9_ReceiverDiscardsCorrupted ==
  [][(op'.name = "B_input") =>
       /\ ~Valid(op'.arg) =>
            /\ op'.tx = <<>>
            /\ op'.up = <<>>
            /\ UNCHANGED <<expectedseqnum, windowfirst, buffer_b>>
       /\ (Valid(op'.arg) /\ op'.arg.seqnum = expectedseqnum) =>
            op'.tx # <<>>]_vars

\* C10: A_input discards an ACK whose checksum does not match with no state
\* change (base, A_nextseqnum, outstanding count, slots, timer and both ACK
\* counters stay), and an ACK whose checksum matches is counted.
C10_SenderDiscardsCorrupted ==
  [][(op'.name = "A_input") =>
       /\ ~Valid(op'.arg) =>
            /\ op'.tcalls = <<>>
            /\ UNCHANGED <<buffer, windowfirst, windowcount, A_nextseqnum,
                           timer, total_ACKs_received, new_ACKs>>
       /\ Valid(op'.arg) =>
            total_ACKs_received' = total_ACKs_received + 1]_vars

\* a payload of a message whose sequence number is seq has been passed to
\* tolayer5 (a payload keeps the fill byte of the message it was sent as)
AlreadyDelivered(seq) ==
  \E i \in 1..Len(delivered), k \in 1..Len(sent) :
    /\ delivered[i].fill = sent[k].fill
    /\ (k - 1) % SEQSPACE = seq

\* C11: a valid packet whose sequence number was already delivered and lies
\* outside the receive window is acknowledged with its own sequence number,
\* and is neither delivered again nor buffered, and the cursor stays.
C11_DuplicateOutsideWindow ==
  [][(/\ op'.name = "B_input"
      /\ Valid(op'.arg)
      /\ op'.arg.seqnum \in 0..(SEQSPACE - 1)
      /\ (op'.arg.seqnum - windowfirst) % SEQSPACE >= WINDOWSIZE
      /\ AlreadyDelivered(op'.arg.seqnum)) =>
       /\ Len(op'.tx) = 1
       /\ op'.tx[1].acknum = op'.arg.seqnum
       /\ op'.up = <<>>
       /\ UNCHANGED <<buffer_b, expectedseqnum>>]_vars

\* C12: the timer protocol.  Every starttimer call made by A_output, A_input
\* or A_timerinterrupt finds the timer not running, and every stoptimer call
\* finds it running.
C12_TimerProtocol ==
  \A i \in 1..Len(op.tcalls) :
    /\ op.tcalls[i].call = "start" => op.tcalls[i].before = "idle"
    /\ op.tcalls[i].call = "stop" => op.tcalls[i].before = "running"

\* the accepted messages whose packet A_input has not marked acknowledged
Outstanding == Len(sent) - ackedsent

\* C13: after every sender operation the timer is running exactly when a sent
\* packet is still unacknowledged.
C13_TimerRunsIffOutstanding ==
  (op.name \in {"A_output", "A_input", "A_timerinterrupt"}) =>
    ((timer = "running") <=> (Outstanding > 0))

\* the message with this payload has been passed to tolayer5 before
DeliveredBefore(payload) ==
  \E i \in 1..Len(delivered) : delivered[i].fill = payload.fill

\* C14: old and new uses of a sequence number are never confused.  B_input
\* neither delivers nor buffers a retransmission of a message it has already
\* delivered, and A_input marks a slot acknowledged only for an ACK that the
\* receiver sent for the packet held in that slot (a packet it has received).
C14_NoStaleConfusion ==
  [][/\ (op'.name = "B_input" /\ DeliveredBefore(op'.arg.payload)) =>
          (op'.up = <<>> /\ buffer_b' = buffer_b)
     /\ (op'.name = "A_input" /\ ackedsent' = ackedsent + 1) =>
          DeliveredBefore(
            buffer[AckIndex(op'.arg.acknum, windowfirst)].payload)]_vars

\* C15: a configuration with SEQSPACE < 2 * WINDOWSIZE is rejected when the
\* protocol is initialised: with such constants no handler ever processes a
\* packet (nothing is accepted, counted, acknowledged or delivered).
C15_ConfigurationRejected ==
  (SEQSPACE < 2 * WINDOWSIZE) =>
    /\ sent = <<>>
    /\ delivered = <<>>
    /\ windowcount = 0
    /\ total_ACKs_received = 0
    /\ packets_received = 0

\* C16: every timer expiry handled by A_timerinterrupt restarts the timer,
\* whatever the state of the window (outstanding count zero included).
C16_ExpiryRestartsTimer ==
  [][(op'.name = "A_timerinterrupt" /\ timer = "running") =>
       /\ timer' = "running"
       /\ Len(op'.tcalls) = 1
       /\ op'.tcalls[1].call = "start"]_vars

\* slots 0..3 hold the packets with sequence numbers base..base+3, of which
\* exactly those in `acked` are marked acknowledged
Scenario(base, acked) ==
  /\ windowfirst = base
  /\ \A j \in 0..3 :
       /\ base + j \in acked => buffer[j].acknum = base + j
       /\ base + j \notin acked => OutstandingAt(j)

\* C17: the sender scenario M0..M3.  A valid ACK 1 leaves the base at 0 and
\* lowers the outstanding count from 4 to 3; a valid ACK 0 then slides the
\* window to base 2 and restarts the timer; a timeout then resends exactly
\* the packet with seq 2; valid ACKs 2 and then 3 slide the window to base 4
\* and stop the timer with outstanding count 0.
C17_SenderScenario ==
  [][/\ (/\ Len(sent) = 4 /\ windowcount = 4 /\ Scenario(0, {})
         /\ npeer' # npeer /\ op'.arg = AckPkt(1)) =>
          /\ windowfirst' = 0
          /\ windowcount' = 3
     /\ (/\ Len(sent) = 4 /\ windowcount = 3 /\ Scenario(0, {1})
         /\ npeer' # npeer /\ op'.arg = AckPkt(0)) =>
          /\ windowfirst' = 2
          /\ windowcount' = 2
          /\ timer' = "running"
          /\ Len(op'.tcalls) = 2
     /\ (/\ Len(sent) = 4 /\ windowcount = 2
         /\ windowfirst = 2 /\ OutstandingAt(0) /\ OutstandingAt(1)
         /\ op'.name = "A_timerinterrupt") =>
          /\ Len(op'.tx) = 1
          /\ op'.tx[1].seqnum = 2
     /\ (/\ Len(sent) = 4 /\ windowcount = 2
         /\ windowfirst = 2 /\ OutstandingAt(0) /\ OutstandingAt(1)
         /\ npeer' # npeer /\ op'.arg = AckPkt(2)) =>
          /\ windowfirst' = 3
          /\ windowcount' = 1
     /\ (/\ Len(sent) = 4 /\ windowcount = 1
         /\ windowfirst = 3 /\ OutstandingAt(0)
         /\ npeer' # npeer /\ op'.arg = AckPkt(3)) =>
          /\ windowfirst' = 4
          /\ windowcount' = 0
          /\ timer' = "idle"]_vars

\* C18: A_nextseqnum is 0 after A_init and is changed only by an accepted
\* A_output, to (old value + 1) mod SEQSPACE; every other call leaves it
\* unchanged, so it is the number of accepted messages mod SEQSPACE and the
\* k-th accepted message is sent with sequence number (k - 1) mod SEQSPACE.
C18_NextSeqnum ==
  /\ [](/\ A_nextseqnum = Len(sent) % SEQSPACE
        /\ (op.name = "A_output" /\ op.tx # <<>>) =>
             op.tx[1].seqnum = (Len(sent) - 1) % SEQSPACE)
  /\ [][A_nextseqnum' = IF sent' # sent
                        THEN (A_nextseqnum + 1) % SEQSPACE
                        ELSE A_nextseqnum]_vars

\* the sequence numbers have wrapped: the message just accepted was sent with
\* the last sequence number and A_nextseqnum is 0 again
C18_Wrapped ==
  /\ op.name = "A_output"
  /\ op.tx # <<>>
  /\ op.tx[1].seqnum = SEQSPACE - 1
  /\ Len(sent) = SEQSPACE
  /\ A_nextseqnum = 0

(* ------------------------------------------------------------------------ *)
(* The checksum on its own: a packet is checksummed, then one field changes *)
(* ------------------------------------------------------------------------ *)
\* header values and payload bytes of the packets that are checksummed
FreshInts == {NOTINUSE, 0, 3, SEQSPACE - 1}
FreshBytes == {0, 48, 97, 122}

\* packets whose checksum field is set to ComputeChecksum of their fields
FreshPkts ==
  {[body EXCEPT !.checksum = ComputeChecksum(body)] :
     body \in {[seqnum |-> s, acknum |-> a, checksum |-> 0,
                payload |-> Fill(c)] :
                 s \in FreshInts, a \in FreshInts, c \in FreshBytes}}

\* the values a changed header field or payload byte may take
ChangedInts == {NOTINUSE, 0, 1, SEQSPACE - 1, 999999}
ChangedBytes == {0, 90, 122}

\* the packets made of p by changing exactly one of seqnum, acknum or one
\* payload byte to a different value, the checksum field untouched
OneFieldChanges(p) ==
  {[p EXCEPT !.seqnum = v] : v \in ChangedInts \ {p.seqnum}}
    \cup {[p EXCEPT !.acknum = v] : v \in ChangedInts \ {p.acknum}}
    \cup {[p EXCEPT !.payload = SetByte(p.payload, i, v)] :
            i \in 1..PAYLOADLEN, v \in ChangedBytes \ {p.payload.fill}}

\* everything but the record of the last call
restVars ==
  <<senderVars, windowfirst, receiverVars, counterVars, envVars, sent,
    delivered, slid, lost, ackedsent, oob>>

Checksummed ==
  /\ op.name = "init"
  /\ \E packet \in FreshPkts : op' = Call("checksum", packet, <<>>, <<>>, <<>>)
  /\ UNCHANGED restVars

Changed ==
  /\ op.name = "checksum"
  /\ \E packet \in OneFieldChanges(op.arg) :
       op' = Call("changed", packet, <<>>, <<>>, <<>>)
  /\ UNCHANGED restVars

ChecksumNext ==
  \/ Checksummed
  \/ Changed

ChecksumSpec == Init /\ [][ChecksumNext]_vars

\* C19: checksum sensitivity.  A packet whose checksum field was set to
\* ComputeChecksum of its fields passes the comparison of IsCorrupted (which
\* then returns -1), and a packet made of it by changing exactly one of
\* seqnum, acknum or a payload byte fails it (IsCorrupted returns 0).
C19_ChecksumSensitivity ==
  /\ op.name = "checksum" => IsCorrupted(op.arg) = -1
  /\ op.name = "changed" => IsCorrupted(op.arg) = 0

\* the last payload byte of a checksummed packet has been changed
C19_LastByteChanged ==
  /\ op.name = "changed"
  /\ op.arg.payload.at = PAYLOADLEN
  /\ op.arg.payload.b # op.arg.payload.fill

\* C20: sender state and receiver state are disjoint.  B_input never changes
\* the sender window base, A_nextseqnum, the outstanding count or a sender
\* slot, and A_output, A_input and A_timerinterrupt never change the receive
\* window base, the delivery cursor or the receive buffer.
C20_DisjointState ==
  [][/\ op'.name = "B_input" =>
          UNCHANGED <<windowfirst, A_nextseqnum, windowcount, buffer>>
     /\ op'.name \in {"A_output", "A_input", "A_timerinterrupt"} =>
          UNCHANGED <<windowfirst, expectedseqnum, buffer_b>>]_vars

\* C21: the state after A_init and B_init.  Before any handler has run the
\* sender base, A_nextseqnum and the outstanding count are 0, every sender
\* slot is unflagged (acknum = NOTINUSE) and cleared, the delivery cursor and
\* the receive-window base are 0 and every receive slot is empty.
C21_InitialState ==
  (op.name = "init") =>
    /\ windowfirst = 0
    /\ A_nextseqnum = 0
    /\ windowcount = 0
    /\ \A i \in Slots :
         /\ buffer[i].acknum = NOTINUSE
         /\ buffer[i].payload = Fill(0)
    /\ expectedseqnum = 0
    /\ \A i \in Slots : ~NotEmptyString(buffer_b[i].payload)

\* C22: an accepted A_output stores the packet it sends at buffer slot
\* (A_nextseqnum - base) mod SEQSPACE, whether or not the window has wrapped,
\* and changes no other slot.
C22_StoreSlot ==
  [][(op'.name = "A_output" /\ sent' # sent) =>
       LET slot == (A_nextseqnum - windowfirst) % SEQSPACE
       IN  /\ slot \in Slots
           /\ buffer' = [buffer EXCEPT ![slot] = op'.tx[1]]]_vars

\* the sender buffer after slot j was marked with acknum s and the window was
\* slid past the marked prefix
AfterMark(j, s) ==
  LET marked == [buffer EXCEPT ![j].acknum = s]
  IN  IF SlideCount(marked) > 0
      THEN ShiftBuffer(marked, SlideCount(marked))
      ELSE marked

\* C23: a valid ACK with acknum s for the packet outstanding at slot
\* (s - base) mod SEQSPACE is accepted as a new ACK and marks that slot, the
\* one holding the packet whose seqnum is s, in the wrapped and the
\* non-wrapped case, and no other slot.
C23_AckMarksSlot ==
  [][LET s == op'.arg.acknum
         j == (s - windowfirst) % SEQSPACE
     IN  (/\ op'.name = "A_input"
          /\ Valid(op'.arg)
          /\ s \in 0..(SEQSPACE - 1)
          /\ j \in Slots
          /\ OutstandingAt(j)) =>
           /\ new_ACKs' = new_ACKs + 1
           /\ buffer' = AfterMark(j, s)]_vars

\* every ACK that A_input accepts as new, whatever its checksum, marks slot
\* (acknum - base) mod SEQSPACE
AcceptedAckMarksSlot ==
  [][(/\ op'.name = "A_input"
      /\ new_ACKs' # new_ACKs
      /\ op'.arg.acknum \in 0..(SEQSPACE - 1)) =>
       buffer' = AfterMark((op'.arg.acknum - windowfirst) % SEQSPACE,
                           op'.arg.acknum)]_vars

(* ------------------------------------------------------------------------ *)
(* The window test on its own: a base is set, then a handler tests a value  *)
(* ------------------------------------------------------------------------ *)
\* the handlers that make the two-branch test, and the values of a base or a
\* sequence number
WindowUsers == {"A_output", "A_input", "B_input"}
SeqNums == 0..(SEQSPACE - 1)

\* the window base takes a value of the sequence space
Based ==
  /\ op.name = "init"
  /\ \E base \in SeqNums : windowfirst' = base
  /\ op' = Call("based", ZeroPkt, <<>>, <<>>, <<>>)
  /\ UNCHANGED <<senderVars, receiverVars, counterVars, envVars, sent,
                 delivered, slid, lost, ackedsent, oob>>

\* a handler is given the value it tests against the window: A_output tests
\* A_nextseqnum, A_input the packet's acknum, B_input the packet's seqnum
Tested ==
  /\ op.name = "based"
  /\ \E user \in WindowUsers, x \in SeqNums :
       /\ op' = Call(user, [ZeroPkt EXCEPT !.seqnum = x, !.acknum = x],
                     <<>>, <<>>, <<>>)
       /\ A_nextseqnum' = x
  /\ UNCHANGED <<buffer, windowfirst, windowlast, windowcount, receiverVars,
                 counterVars, envVars, sent, delivered, slid, lost, ackedsent,
                 oob>>

\* the value the handler of the last call tests
TestedValue ==
  IF op.name = "A_output" THEN A_nextseqnum
  ELSE IF op.name = "A_input" THEN op.arg.acknum
  ELSE op.arg.seqnum

WindowNext ==
  \/ Based
  \/ Tested

WindowSpec == Init /\ [][WindowNext]_vars

\* C24: for every base and every x in [0, SEQSPACE) the two-branch window
\* test that A_output makes on A_nextseqnum, A_input on acknum and B_input on
\* seqnum is true exactly when (x - base) mod SEQSPACE < WINDOWSIZE.
C24_WindowTest ==
  (op.name \in WindowUsers) =>
    (InWindow(TestedValue, windowfirst)
       <=> ((TestedValue - windowfirst) % SEQSPACE < WINDOWSIZE))

\* a value below the base is found inside a window that has wrapped
C24_WrappedInside ==
  /\ op.name \in WindowUsers
  /\ TestedValue < windowfirst
  /\ (windowfirst + WINDOWSIZE - 1) % SEQSPACE < windowfirst
  /\ InWindow(TestedValue, windowfirst)

\* receive slot i holds no packet
EmptySlotB(buf, i) == ~(buf[i].acknum >= 0 /\ NotEmptyString(buf[i].payload))

\* C25: the in-order delivery run.  A call of B_input with a valid packet
\* whose seqnum is the delivery cursor, while the next m-1 slots are occupied
\* (m >= 1), delivers the m payloads in sequence-number order, each once,
\* advances expectedseqnum by m mod SEQSPACE and leaves the last m slots of
\* the re-based buffer empty.
C25_InOrderRun ==
  [][(/\ op'.name = "B_input"
      /\ Valid(op'.arg)
      /\ op'.arg.seqnum = expectedseqnum) =>
       LET m == 1 + PckFrom(buffer_b, 1)
       IN  /\ op'.up = [i \in 1..m |-> IF i = 1
                                      THEN op'.arg.payload
                                      ELSE buffer_b[i - 1].payload]
           /\ expectedseqnum' = (expectedseqnum + m) % SEQSPACE
           /\ \A i \in Slots :
                i >= WINDOWSIZE - m => EmptySlotB(buffer_b', i)]_vars

\* C26: a valid packet whose seqnum is inside the receive window, ahead of
\* the delivery cursor and not yet buffered, is stored by B_input at slot
\* (seqnum - expectedseqnum) mod SEQSPACE, in the wrapped and the non-wrapped
\* case, and is kept there undelivered while the hole before it is open.
C26_BufferOutOfOrder ==
  [][LET j == (op'.arg.seqnum - expectedseqnum) % SEQSPACE
     IN  (/\ op'.name = "B_input"
          /\ Valid(op'.arg)
          /\ op'.arg.seqnum \in 0..(SEQSPACE - 1)
          /\ j \in 1..(WINDOWSIZE - 1)
          /\ EmptySlotB(buffer_b, j)) =>
           /\ op'.up = <<>>
           /\ buffer_b'[j].seqnum = op'.arg.seqnum
           /\ buffer_b'[j].payload = op'.arg.payload
           /\ \A i \in Slots \ {j} : buffer_b'[i] = buffer_b[i]]_vars

\* C27: in every reachable state the base that B_input tests and indexes
\* with (windowfirst) equals the delivery cursor expectedseqnum, and
\* expectedseqnum is the number of payloads delivered so far mod SEQSPACE.
C27_CursorIsBase ==
  /\ windowfirst = expectedseqnum
  /\ expectedseqnum = Len(delivered) % SEQSPACE

\* the payloads a data packet may carry to B_input: a message, or a message
\* whose first byte is the channel's noise or zero
Payloads ==
  {Message(k) : k \in 0..(MaxCalls - 1)}
    \cup {SetByte(Message(k), 1, v) : k \in 0..(MaxCalls - 1),
                                      v \in NoiseBytes \cup {0}}

\* a valid packet for the delivery cursor that finds its slot as B_init left
\* it is treated as new: it is acknowledged and delivered or stored
ValidPacketIsNew ==
  [][(/\ op'.name = "B_input"
      /\ Valid(op'.arg)
      /\ op'.arg.seqnum = expectedseqnum
      /\ buffer_b[0] = ZeroPkt) =>
       /\ op'.tx # <<>>
       /\ (op'.up # <<>> \/ buffer_b' # buffer_b)]_vars

\* for every packet that B_input takes to its new-or-duplicate decision, the
\* decision taken (new: the payload is passed to tolayer5 a second time) is
\* the one every other payload would have met in the same state
DecisionIgnoresPayload ==
  [][(/\ op'.name = "B_input"
      /\ op'.tx # <<>>
      /\ InWindow(op'.arg.seqnum, windowfirst)) =>
       \A payload \in Payloads :
         DiffersAt(buffer_b, RcvIndex(op'.arg.seqnum, windowfirst), payload)
           = {Len(op'.up) = 2}]_vars

\* C28: whether B_input treats a valid in-window packet as new or as an
\* already-buffered duplicate depends only on sequence numbers and slot
\* occupancy, never on payload bytes: a valid packet for an empty slot is
\* new, and a packet with the same seqnum and any other payload (identical to
\* the previous message's, or with a zero first byte) meets the same decision,
\* hence the same ACKs, number of deliveries and cursor.
C28_PayloadIndependence ==
  /\ ValidPacketIsNew
  /\ DecisionIgnoresPayload

\* this step is a call of A_input with the packet of the call before it, no
\* other event in between
SameAckAgain ==
  /\ op.name = "A_input"
  /\ op'.name = "A_input"
  /\ op'.arg = op.arg
  /\ (npeer' # npeer \/ chanBA' # chanBA)

\* C29: duplicate ACKs are idempotent.  Processing the same valid in-window
\* ACK a second time, with no other event in between, leaves the base, the
\* slots and their flags, the outstanding count, new_ACKs and the timer as
\* the first processing left them; total_ACKs_received grows by one.
C29_DuplicateAckIdempotent ==
  [][(/\ SameAckAgain
      /\ Valid(op'.arg)
      /\ (op'.arg.acknum - windowfirst) % SEQSPACE < WINDOWSIZE) =>
       /\ UNCHANGED <<windowfirst, buffer, windowcount, new_ACKs, timer>>
       /\ op'.tcalls = <<>>
       /\ total_ACKs_received' = total_ACKs_received + 1]_vars

\* an ACK that A_input counts (whatever its checksum) changes nothing but
\* total_ACKs_received when it is processed a second time
CountedAckIdempotent ==
  [][(SameAckAgain /\ total_ACKs_received' # total_ACKs_received) =>
       /\ UNCHANGED <<windowfirst, buffer, windowcount, new_ACKs, timer>>
       /\ op'.tcalls = <<>>]_vars

\* the sequence numbers of the sender window [base, base + WINDOWSIZE - 1]
SenderWindow ==
  {(windowfirst + k) % SEQSPACE : k \in 0..(WINDOWSIZE - 1)}

\* C30: an ACK whose acknum is outside the sender window is discarded.  The
\* call of A_input leaves the base, A_nextseqnum, every slot and flag, the
\* outstanding count, new_ACKs and the timer unchanged, makes no timer call
\* and hands nothing to layer 3; this holds for a valid ACK and for any other
\* ACK whose acknum is a sequence number.
C30_OutOfWindowAckDiscarded ==
  [][(/\ op'.name = "A_input"
      /\ op'.arg.acknum \notin SenderWindow
      /\ (Valid(op'.arg) \/ op'.arg.acknum \in 0..(SEQSPACE - 1))) =>
       /\ UNCHANGED <<windowfirst, A_nextseqnum, buffer, windowcount,
                      new_ACKs, timer, chanAB>>
       /\ op'.tx = <<>>
       /\ op'.tcalls = <<>>]_vars

\* with packets outstanding, A_input has just been handed a valid ACK whose
\* acknum is outside the window, after an earlier ACK had been counted
C30_ValidOutside ==
  /\ op.name = "A_input"
  /\ Valid(op.arg)
  /\ op.arg.acknum \in 0..(SEQSPACE - 1)
  /\ op.arg.acknum \notin SenderWindow
  /\ windowcount > 0
  /\ total_ACKs_received > 0

\* the state of sender slot i as the code keeps it: the flag is the acknum
\* field, a cleared slot has a zeroed payload
SlotState(buf, i) ==
  IF buf[i].acknum # NOTINUSE THEN "Acked"
  ELSE IF NotEmptyString(buf[i].payload) THEN "SentUnacked"
  ELSE "Empty"

\* acknum names a sequence number of the window that A_output has not used
\* yet: it is inside the window, at or beyond A_nextseqnum
NotYetSent(acknum) ==
  /\ acknum \in 0..(SEQSPACE - 1)
  /\ (acknum - windowfirst) % SEQSPACE < WINDOWSIZE
  /\ (acknum - windowfirst) % SEQSPACE
       >= (A_nextseqnum - windowfirst) % SEQSPACE

\* an accepted A_output changes one slot, from Empty to Sent-Unacked
OutputFillsEmptySlot ==
  [][(op'.name = "A_output" /\ sent' # sent) =>
       \A i \in Slots :
         buffer'[i] # buffer[i] =>
           /\ SlotState(buffer, i) = "Empty"
           /\ SlotState(buffer', i) = "SentUnacked"]_vars

\* a slot is flagged only by a valid ACK (A_input takes an ACK for new only
\* when its checksum matches)
OnlyValidAckFlags ==
  [][(op'.name = "A_input" /\ new_ACKs' # new_ACKs) => Valid(op'.arg)]_vars

\* an ACK A_input counts, for a sequence number not yet sent, changes no
\* slot, base or counter of the window
UnsentAckIgnored ==
  [][(/\ op'.name = "A_input"
      /\ total_ACKs_received' # total_ACKs_received
      /\ NotYetSent(op'.arg.acknum)) =>
       UNCHANGED <<buffer, windowfirst, windowcount, new_ACKs>>]_vars

\* C31: each sender slot changes state only along Empty -> Sent-Unacked (an
\* accepted A_output), Sent-Unacked -> Acked (a valid in-window ACK) and
\* Acked -> Empty (a slide); a valid ACK for a sequence number of the window
\* that has not been sent yet marks no slot and leaves the outstanding count
\* and new_ACKs as they are.
C31_SlotLifecycle ==
  /\ OutputFillsEmptySlot
  /\ OnlyValidAckFlags
  /\ [][(/\ op'.name = "A_input"
         /\ Valid(op'.arg)
         /\ NotYetSent(op'.arg.acknum)) =>
          UNCHANGED <<buffer, windowfirst, windowcount, new_ACKs>>]_vars

\* the number of slots holding a sent packet that is not flagged
SentUnackedSlots ==
  Cardinality({i \in Slots : SlotState(buffer, i) = "SentUnacked"})

\* C32: in every reachable state windowcount is the number of packets sent
\* by A_output and not yet acknowledged, which is the number of Sent-Unacked
\* slots; it lies in 0..WINDOWSIZE and is never negative.
C32_WindowcountIsOutstanding ==
  /\ windowcount = Outstanding
  /\ windowcount = SentUnackedSlots
  /\ 0 <= windowcount
  /\ windowcount <= WINDOWSIZE

\* a call of A_input that moves the base by k shifts the slots left by k and
\* leaves the last k slots Empty
SlideShiftsSlots ==
  [][(op'.name = "A_input" /\ windowfirst' # windowfirst) =>
       LET k == (windowfirst' - windowfirst) % SEQSPACE
       IN  /\ k <= WINDOWSIZE
           /\ \A i \in Slots :
                IF i < WINDOWSIZE - k
                THEN /\ buffer'[i].seqnum = buffer[i + k].seqnum
                     /\ buffer'[i].payload = buffer[i + k].payload
                     /\ SlotState(buffer', i) = SlotState(buffer, i + k)
                ELSE SlotState(buffer', i) = "Empty"]_vars

\* every slot that holds a packet holds the one that base + i names
SlotsFollowBase ==
  \A i \in Slots :
    NotEmptyString(buffer[i].payload) =>
      buffer[i].seqnum = (windowfirst + i) % SEQSPACE

\* once a handler has run, slot 0 is not left flagged
BaseSlotNotAcked ==
  (op.name # "init") => SlotState(buffer, 0) # "Acked"

\* C33: a slide by k in A_input moves content and flag of slot i+k to slot i
\* for 0 <= i < WINDOWSIZE-k and leaves the last k slots Empty; in every
\* reachable state each slot that holds a packet holds the one with seqnum
\* (base + i) mod SEQSPACE, and slot 0 is not Acked after an operation.
C33_SlideKeepsSlotsAligned ==
  /\ SlideShiftsSlots
  /\ [](SlotsFollowBase /\ BaseSlotNotAcked)

\* the packets that accepted calls of A_output have sent so far, as they were
\* sent (acknum NOTINUSE: not flagged acknowledged)
SentPkts ==
  {DataPkt((k - 1) % SEQSPACE, sent[k]) : k \in 1..Len(sent)}

\* C34: every packet that A_timerinterrupt hands to layer 3 equals, in
\* seqnum, acknum, payload and checksum, a packet that an accepted A_output
\* sent and that is not flagged acknowledged; it passes the checksum
\* comparison, and a cleared, never-filled or acknowledged slot is never
\* resent.
C34_ResendsSentPacket ==
  [][(op'.name = "A_timerinterrupt") =>
       \A i \in 1..Len(op'.tx) :
         /\ op'.tx[i] \in SentPkts
         /\ Valid(op'.tx[i])
         /\ SlotState(buffer, 0) = "SentUnacked"]_vars

\* C35: every index used to read or write the sender buffer (A_output,
\* A_input, A_timerinterrupt) and the receive buffer (B_input), the indices
\* i+k used while shifting included, lies in [0, WINDOWSIZE) in every
\* reachable state.
C35_IndicesInBounds == ~oob

\* this step is a call of A_input
AckHandedIn ==
  /\ op'.name = "A_input"
  /\ (npeer' # npeer \/ Len(chanBA') < Len(chanBA))

\* C36: the ACK counters are consistent.  total_ACKs_received counts the
\* valid ACKs handed to A_input (it starts at 0 and grows by one on each of
\* them, and on nothing else), new_ACKs is the number of sent packets that
\* have been acknowledged, and so new_ACKs <= total_ACKs_received and
\* new_ACKs <= the number of messages accepted by A_output.
C36_AckCounters ==
  /\ [](/\ new_ACKs = ackedsent
        /\ new_ACKs <= total_ACKs_received
        /\ new_ACKs <= Len(sent))
  /\ [][total_ACKs_received' =
          IF AckHandedIn /\ Valid(op'.arg)
          THEN total_ACKs_received + 1
          ELSE total_ACKs_received]_vars

\* the state part of C36 that relates the two counters to each other
NewAcksWithinTotal == new_ACKs <= total_ACKs_received

\* the state part of C36 that relates new_ACKs to the packets sent
NewAcksWithinSent == new_ACKs = ackedsent /\ new_ACKs <= Len(sent)

\* the window is full: A_nextseqnum is outside it
WindowIsFull == (A_nextseqnum - windowfirst) % SEQSPACE >= WINDOWSIZE

\* a call of A_output made while A_nextseqnum is inside the window is
\* accepted and sends the message with sequence number A_nextseqnum
RetryAccepted ==
  [][(/\ op'.name = "A_output"
      /\ Len(sent') + window_full' # Len(sent) + window_full
      /\ ~WindowIsFull) =>
       /\ sent' = Append(sent, op'.arg.payload)
       /\ Len(op'.tx) = 1
       /\ op'.tx[1].seqnum = A_nextseqnum
       /\ op'.tx[1].payload = op'.arg.payload]_vars

\* C37: a window-full rejection is not permanent.  Once A_output has
\* rejected a message with the window full, a valid ACK for the base packet
\* handed to A_input opens the window, and a call of A_output made with the
\* window open is accepted and sends its message with the next sequence
\* number.
C37_RejectionNotPermanent ==
  /\ [][(/\ AckHandedIn
         /\ Valid(op'.arg)
         /\ op'.arg.acknum = windowfirst
         /\ OutstandingAt(0)
         /\ window_full > 0
         /\ WindowIsFull) => ~WindowIsFull']_vars
  /\ RetryAccepted

====
